---- MODULE Spec2Model ----
(***************************************************************************)
(* Model of geometry::Sphere (src/geometries/sphere.cpp): the constructor  *)
(* and its three passes set_vertexes, set_indices and set_normals, one     *)
(* action per loop iteration or straight-line block.                       *)
(*                                                                         *)
(* Offsets into m_vertexes are 0-based as in the source; m_indices is a    *)
(* sequence whose k-th triple (k = 0, 1, ...) is at positions 3k+1..3k+3.  *)
(* Floats are kept symbolic (records naming the expression that produced   *)
(* them), so two slots are equal only if the same expression was stored.   *)
(***************************************************************************)
EXTENDS Integers, Sequences, FiniteSets

\* ------------------------------------------------------------------ bounds
MaxLongitudes == 5
MaxLatitudes == 4
MaxRadius == 2
\* bands appended before the model stops following the band loop
MaxBands == MaxLatitudes

\* ------------------------------------------------------- program constants
\* floats per vertex: xyz position followed by xyz normal
m_n_coords == 6

\* unsigned int is 32 bits wide; a value is kept as <<high half, low half>>
Half == 65536

VARIABLES
  m_radius,        \* float radius (a positive integer here)
  m_n_longitudes,  \* unsigned int
  m_n_latitudes,   \* unsigned int
  m_n_vertexes,    \* unsigned int
  m_vertexes,      \* std::vector<float>, a function on 0..size-1
  m_indices,       \* std::vector<unsigned int>, a sequence
  pc,              \* position inside the constructor
  i_lat, i_lon,    \* loop counters of set_vertexes / set_indices
  i_coord,         \* running offset of set_vertexes
  i_vertex,        \* loop counter of set_normals
  indice_last,     \* local of set_indices: index of the south-cap apex
  accessed,        \* offsets of m_vertexes read or written by the last step
  written,         \* history: the stores into m_vertexes so far, in order
  n_elements       \* <<>> until get_n_elements() is called, then <<value>>

vars == <<m_radius, m_n_longitudes, m_n_latitudes, m_n_vertexes, m_vertexes,
          m_indices, pc, i_lat, i_lon, i_coord, i_vertex, indice_last, accessed,
          written, n_elements>>

\* ------------------------------------------------------------------ floats
\* a float literal / the member m_radius and its negation
Lit(v) == [f |-> "lit", r |-> v, i_lon |-> 0, n_lon |-> 0, i_lat |-> 0, n_lat |-> 0, of |-> <<>>, axis |-> 0]

\* m_radius * cos(lon) * sin(lat), with lon = i_lon * (2*M_PI / n_lon) and lat = i_lat * (M_PI / n_lat)
RingX(r, ilon, nlon, ilat, nlat) ==
  [f |-> "r*cos(lon)*sin(lat)", r |-> r, i_lon |-> ilon, n_lon |-> nlon, i_lat |-> ilat, n_lat |-> nlat, of |-> <<>>, axis |-> 0]

\* m_radius * cos(lat)
RingY(r, ilon, nlon, ilat, nlat) ==
  [f |-> "r*cos(lat)", r |-> r, i_lon |-> 0, n_lon |-> 0, i_lat |-> ilat, n_lat |-> nlat, of |-> <<>>, axis |-> 0]

\* m_radius * sin(lon) * sin(lat)
RingZ(r, ilon, nlon, ilat, nlat) ==
  [f |-> "r*sin(lon)*sin(lat)", r |-> r, i_lon |-> ilon, n_lon |-> nlon, i_lat |-> ilat, n_lat |-> nlat, of |-> <<>>, axis |-> 0]

\* component k (1..3) of glm::normalize(v)
Normalize(v, k) ==
  [f |-> "normalize", r |-> 0, i_lon |-> 0, n_lon |-> 0, i_lat |-> 0, n_lat |-> 0, of |-> v, axis |-> k]

\* m_vertexes[off] = v ; a store outside the vector leaves the vector as it is
\* (the offsets of every step are recorded in accessed)
Store(buf, off, v) == IF off \in DOMAIN buf THEN [buf EXCEPT ![off] = v] ELSE buf

\* m_vertexes[off] ; a load outside the vector yields some float
Load(buf, off) == IF off \in DOMAIN buf THEN buf[off] ELSE Lit(0)

\* the three stores at off, off + 1, off + 2 made by pass by, appended to the history
Log3(log, off, by) ==
  log \o <<[off |-> off, by |-> by], [off |-> off + 1, by |-> by], [off |-> off + 2, by |-> by]>>

Store3(buf, off, x, y, z) == Store(Store(Store(buf, off, x), off + 1, y), off + 2, z)

\* ------------------------------------------------------------ unsigned int
\* the unsigned int with value n
U32(n) == <<n \div Half, n % Half>>

\* a - b on unsigned int, wrapping modulo 2^32
U32Sub(a, b) ==
  LET lo == a[2] - b[2]
      borrow == IF lo < 0 THEN 1 ELSE 0
  IN <<(a[1] - b[1] - borrow + Half) % Half, (lo + Half) % Half>>

\* a < b on unsigned int
U32Less(a, b) == a[1] < b[1] \/ (a[1] = b[1] /\ a[2] < b[2])

\* ------------------------------------------------------------- constructor
\* variant: only one of the two poles is counted
NVertexes_OnePole(n_longitudes, n_latitudes) == 1 + n_longitudes * (n_latitudes - 1)

\* member initialiser of m_n_vertexes
NVertexes(n_longitudes, n_latitudes) == 1 + n_longitudes * (n_latitudes - 1) + 1

\* variant: room for the positions only
BufferSize_PositionsOnly(n_vertexes) == 3 * n_vertexes

\* argument of m_vertexes.resize
BufferSize(n_vertexes) == m_n_coords * n_vertexes

\* construction with any latitude count from 1 on: the constructor checks nothing
InitUnchecked ==
  /\ m_radius \in 1..MaxRadius
  /\ m_n_longitudes \in 1..MaxLongitudes
  /\ m_n_latitudes \in 1..MaxLatitudes
  /\ m_n_vertexes = NVertexes(m_n_longitudes, m_n_latitudes)
  /\ m_vertexes = [o \in {} |-> Lit(0)]
  /\ m_indices = <<>>
  /\ pc = "resize"
  /\ i_lat = 0
  /\ i_lon = 0
  /\ i_coord = 0
  /\ i_vertex = 0
  /\ indice_last = 0
  /\ accessed = {}
  /\ written = <<>>
  /\ n_elements = <<>>

Init ==
  /\ m_radius \in 1..MaxRadius
  /\ m_n_longitudes \in 1..MaxLongitudes
  /\ m_n_latitudes \in 2..MaxLatitudes
  /\ m_n_vertexes = NVertexes(m_n_longitudes, m_n_latitudes)
  /\ m_vertexes = [o \in {} |-> Lit(0)]
  /\ m_indices = <<>>
  /\ pc = "resize"
  /\ i_lat = 0
  /\ i_lon = 0
  /\ i_coord = 0
  /\ i_vertex = 0
  /\ indice_last = 0
  /\ accessed = {}
  /\ written = <<>>
  /\ n_elements = <<>>

\* m_vertexes.resize(m_n_coords * m_n_vertexes): value-initialised floats
Resize ==
  /\ pc = "resize"
  /\ m_vertexes' = [o \in 0..(BufferSize(m_n_vertexes) - 1) |-> Lit(0)]
  /\ pc' = "set_vertexes"
  /\ accessed' = {}
  /\ UNCHANGED <<m_radius, m_n_longitudes, m_n_latitudes, m_n_vertexes, m_indices,
                 i_lat, i_lon, i_coord, i_vertex, indice_last, n_elements, written>>

\* ------------------------------------------------------------ set_vertexes
NorthPole(radius) == <<Lit(0), Lit(radius), Lit(0)>>

SouthPole(radius) == <<Lit(0), Lit(0 - radius), Lit(0)>>

\* variant: the ring loop starts one vertex too far
FirstRingCoord_Skip == 2 * m_n_coords

\* offset of the first ring vertex: unsigned int i_coord = m_n_coords
FirstRingCoord == m_n_coords

RingVertex(radius, ilon, nlon, ilat, nlat) ==
  <<RingX(radius, ilon, nlon, ilat, nlat),
    RingY(radius, ilon, nlon, ilat, nlat),
    RingZ(radius, ilon, nlon, ilat, nlat)>>

\* north pole, then the initialisation of i_coord and of the two ring loops
SetVertexesNorthPole ==
  /\ pc = "set_vertexes"
  /\ LET p == NorthPole(m_radius)
     IN m_vertexes' = Store3(m_vertexes, 0, p[1], p[2], p[3])
  /\ written' = Log3(written, 0, "set_vertexes")
  /\ accessed' = {0, 1, 2}
  /\ i_coord' = FirstRingCoord
  /\ i_lat' = 1
  /\ i_lon' = 0
  /\ pc' = "set_vertexes_rings"
  /\ UNCHANGED <<m_radius, m_n_longitudes, m_n_latitudes, m_n_vertexes, m_indices,
                 i_vertex, indice_last, n_elements>>

\* one iteration of the inner (longitude) loop; the outer loop advances when
\* the inner one runs out
SetVertexesRing ==
  /\ pc = "set_vertexes_rings"
  /\ i_lat < m_n_latitudes
  /\ i_lon < m_n_longitudes
  /\ LET p == RingVertex(m_radius, i_lon, m_n_longitudes, i_lat, m_n_latitudes)
     IN m_vertexes' = Store3(m_vertexes, i_coord, p[1], p[2], p[3])
  /\ written' = Log3(written, i_coord, "set_vertexes")
  /\ accessed' = {i_coord, i_coord + 1, i_coord + 2}
  /\ i_coord' = i_coord + m_n_coords
  /\ IF i_lon + 1 < m_n_longitudes
       THEN i_lon' = i_lon + 1 /\ i_lat' = i_lat
       ELSE i_lon' = 0 /\ i_lat' = i_lat + 1
  /\ UNCHANGED <<m_radius, m_n_longitudes, m_n_latitudes, m_n_vertexes, m_indices,
                 pc, i_vertex, indice_last, n_elements>>

\* south pole after the ring loops; set_indices starts with its first loop
SetVertexesSouthPole ==
  /\ pc = "set_vertexes_rings"
  /\ ~(i_lat < m_n_latitudes)
  /\ LET p == SouthPole(m_radius)
     IN m_vertexes' = Store3(m_vertexes, i_coord, p[1], p[2], p[3])
  /\ written' = Log3(written, i_coord, "set_vertexes")
  /\ accessed' = {i_coord, i_coord + 1, i_coord + 2}
  /\ i_lon' = 1
  /\ pc' = "north_cap"
  /\ UNCHANGED <<m_radius, m_n_longitudes, m_n_latitudes, m_n_vertexes, m_indices,
                 i_lat, i_coord, i_vertex, indice_last, n_elements>>

\* ------------------------------------------------------------- set_indices
\* { 0, i_lon + 1, i_lon }
NorthCapTriangle(ilon) == <<0, ilon + 1, ilon>>

\* { 0, 1, m_n_longitudes }
NorthCapClosing(n) == <<0, 1, n>>

\* variant: the face is split along its other diagonal
BodyFace_OtherDiagonal(ilat, ilon, n) ==
  LET i_p0 == ilon + ilat * n
      i_p1 == i_p0 + 1
      i_p2 == (ilon + n) + ilat * n
      i_p3 == i_p2 + 1
  IN <<i_p0, i_p1, i_p3>> \o <<i_p0, i_p3, i_p2>>

\* the two triangles of one face of a band
BodyFace(ilat, ilon, n) ==
  LET i_p0 == ilon + ilat * n
      i_p1 == i_p0 + 1
      i_p2 == (ilon + n) + ilat * n
      i_p3 == i_p2 + 1
  IN <<i_p0, i_p1, i_p2>> \o <<i_p1, i_p3, i_p2>>

\* variant: the second triangle of the closing face is missing
BodyClosing_OneTriangle(ilat, n) ==
  LET i_p0 == 1 + ilat * n
      i_p1 == n + ilat * n
      i_p2 == i_p0 + n
  IN <<i_p0, i_p2, i_p1>>

\* variant: the closing face lists its corners in the order of the other faces
BodyClosing_Unswapped(ilat, n) ==
  LET i_p0 == 1 + ilat * n
      i_p1 == n + ilat * n
      i_p2 == i_p0 + n
      i_p3 == i_p1 + n
  IN <<i_p0, i_p1, i_p2>> \o <<i_p1, i_p3, i_p2>>

\* the two triangles of the face that closes a band
BodyClosing(ilat, n) ==
  LET i_p0 == 1 + ilat * n
      i_p1 == n + ilat * n
      i_p2 == i_p0 + n
      i_p3 == i_p1 + n
  IN <<i_p0, i_p2, i_p1>> \o <<i_p1, i_p2, i_p3>>

\* variant: off by one
IndiceLast_PlusOne(n, nlat) == n * (nlat - 1) + 2

\* unsigned int indice_last = m_n_longitudes * (m_n_latitudes - 1) + 1
IndiceLast(n, nlat) == n * (nlat - 1) + 1

\* variant: off by one
SouthCapTriangle_OffByOne(last, ilon) == <<last, last - ilon, last - ilon + 1>>

\* { indice_last, indice_last - (i_lon + 1), indice_last - i_lon }
SouthCapTriangle(last, ilon) == <<last, last - (ilon + 1), last - ilon>>

\* variant: off by one
SouthCapClosing_OffByOne(last, n) == <<last, last - 1, last - n + 1>>

\* { indice_last, indice_last - 1, indice_last - m_n_longitudes }
SouthCapClosing(last, n) == <<last, last - 1, last - n>>

NorthCapFan ==
  /\ pc = "north_cap"
  /\ i_lon < m_n_longitudes
  /\ m_indices' = m_indices \o NorthCapTriangle(i_lon)
  /\ i_lon' = i_lon + 1
  /\ accessed' = {}
  /\ UNCHANGED <<m_radius, m_n_longitudes, m_n_latitudes, m_n_vertexes, m_vertexes,
                 pc, i_lat, i_coord, i_vertex, indice_last, n_elements, written>>

\* closing triangle of the north cap, then the initialisation of the band loops
NorthCapClose ==
  /\ pc = "north_cap"
  /\ ~(i_lon < m_n_longitudes)
  /\ m_indices' = m_indices \o NorthCapClosing(m_n_longitudes)
  /\ i_lat' = 0
  /\ i_lon' = 1
  /\ pc' = "body"
  /\ accessed' = {}
  /\ UNCHANGED <<m_radius, m_n_longitudes, m_n_latitudes, m_n_vertexes, m_vertexes,
                 i_coord, i_vertex, indice_last, n_elements, written>>

\* variant: the bound is computed on signed values and cut off at 0
BandLoopBound_Signed(nlat) == IF nlat < 2 THEN U32(0) ELSE U32(nlat - 2)

\* m_n_latitudes - 2, unsigned
BandLoopBound(nlat) == U32Sub(U32(nlat), U32(2))

\* i_lat < m_n_latitudes - 2
BandLoopCond(ilat, nlat) == U32Less(U32(ilat), BandLoopBound(nlat))

\* the model follows the band loop for MaxBands bands at most; with
\* m_n_latitudes >= 2 the loop ends before that
BodyQuad ==
  /\ pc = "body"
  /\ BandLoopCond(i_lat, m_n_latitudes)
  /\ i_lat < MaxBands
  /\ i_lon < m_n_longitudes
  /\ m_indices' = m_indices \o BodyFace(i_lat, i_lon, m_n_longitudes)
  /\ i_lon' = i_lon + 1
  /\ accessed' = {}
  /\ UNCHANGED <<m_radius, m_n_longitudes, m_n_latitudes, m_n_vertexes, m_vertexes,
                 pc, i_lat, i_coord, i_vertex, indice_last, n_elements, written>>

BodyClose ==
  /\ pc = "body"
  /\ BandLoopCond(i_lat, m_n_latitudes)
  /\ i_lat < MaxBands
  /\ ~(i_lon < m_n_longitudes)
  /\ m_indices' = m_indices \o BodyClosing(i_lat, m_n_longitudes)
  /\ i_lat' = i_lat + 1
  /\ i_lon' = 1
  /\ accessed' = {}
  /\ UNCHANGED <<m_radius, m_n_longitudes, m_n_latitudes, m_n_vertexes, m_vertexes,
                 pc, i_coord, i_vertex, indice_last, n_elements, written>>

\* the band loop is over: indice_last and the initialisation of the south loop
SouthCapBegin ==
  /\ pc = "body"
  /\ ~BandLoopCond(i_lat, m_n_latitudes)
  /\ indice_last' = IndiceLast(m_n_longitudes, m_n_latitudes)
  /\ i_lon' = 1
  /\ pc' = "south_cap"
  /\ accessed' = {}
  /\ UNCHANGED <<m_radius, m_n_longitudes, m_n_latitudes, m_n_vertexes, m_vertexes,
                 m_indices, i_lat, i_coord, i_vertex, n_elements, written>>

SouthCapFan ==
  /\ pc = "south_cap"
  /\ i_lon < m_n_longitudes
  /\ m_indices' = m_indices \o SouthCapTriangle(indice_last, i_lon)
  /\ i_lon' = i_lon + 1
  /\ accessed' = {}
  /\ UNCHANGED <<m_radius, m_n_longitudes, m_n_latitudes, m_n_vertexes, m_vertexes,
                 pc, i_lat, i_coord, i_vertex, indice_last, n_elements, written>>

\* closing triangle of the south cap; set_normals starts with its loop
SouthCapClose ==
  /\ pc = "south_cap"
  /\ ~(i_lon < m_n_longitudes)
  /\ m_indices' = m_indices \o SouthCapClosing(indice_last, m_n_longitudes)
  /\ i_vertex' = 0
  /\ pc' = "set_normals"
  /\ accessed' = {}
  /\ UNCHANGED <<m_radius, m_n_longitudes, m_n_latitudes, m_n_vertexes, m_vertexes,
                 i_lat, i_lon, i_coord, indice_last, n_elements, written>>

\* ------------------------------------------------------------- set_normals
\* variant: the normal is stored on top of the position
NormalCoord_OnPosition(ic) == ic

\* offset of the normal of the vertex at offset ic: normals stored after xyz positions
NormalCoord(ic) == ic + 3

\* one iteration of the loop over the vertexes
SetNormalsVertex ==
  /\ pc = "set_normals"
  /\ i_vertex < m_n_vertexes
  /\ LET ic == m_n_coords * i_vertex
         normal == <<Load(m_vertexes, ic), Load(m_vertexes, ic + 1), Load(m_vertexes, ic + 2)>>
     IN /\ m_vertexes' = Store3(m_vertexes, NormalCoord(ic),
                                Normalize(normal, 1), Normalize(normal, 2), Normalize(normal, 3))
        /\ written' = Log3(written, NormalCoord(ic), "set_normals")
        /\ accessed' = {ic, ic + 1, ic + 2, NormalCoord(ic), NormalCoord(ic) + 1, NormalCoord(ic) + 2}
  /\ i_vertex' = i_vertex + 1
  /\ UNCHANGED <<m_radius, m_n_longitudes, m_n_latitudes, m_n_vertexes, m_indices,
                 pc, i_lat, i_lon, i_coord, indice_last, n_elements>>

\* the loop of set_normals is over and the constructor returns
ConstructorReturn ==
  /\ pc = "set_normals"
  /\ ~(i_vertex < m_n_vertexes)
  /\ pc' = "done"
  /\ accessed' = {}
  /\ UNCHANGED <<m_radius, m_n_longitudes, m_n_latitudes, m_n_vertexes, m_vertexes,
                 m_indices, i_lat, i_lon, i_coord, i_vertex, indice_last, n_elements, written>>

\* ---------------------------------------------------------------- getters
\* unsigned int get_n_elements() const { return m_indices.size(); }
GetNElementsValue(indices) == Len(indices)

GetNElements ==
  /\ pc = "done"
  /\ n_elements' = <<GetNElementsValue(m_indices)>>
  /\ accessed' = {}
  /\ UNCHANGED <<m_radius, m_n_longitudes, m_n_latitudes, m_n_vertexes, m_vertexes,
                 m_indices, pc, i_lat, i_lon, i_coord, i_vertex, indice_last, written>>

Next ==
  \/ Resize
  \/ SetVertexesNorthPole
  \/ SetVertexesRing
  \/ SetVertexesSouthPole
  \/ NorthCapFan
  \/ NorthCapClose
  \/ BodyQuad
  \/ BodyClose
  \/ SouthCapBegin
  \/ SouthCapFan
  \/ SouthCapClose
  \/ SetNormalsVertex
  \/ ConstructorReturn
  \/ GetNElements

Spec == Init /\ [][Next]_vars

SpecUnchecked == InitUnchecked /\ [][Next]_vars

\* ----------------------------------------------------------------- helpers
NTriangles == Len(m_indices) \div 3

\* the k-th triple of the index list, k = 0 .. NTriangles - 1
Triangle(k) == <<m_indices[3 * k + 1], m_indices[3 * k + 2], m_indices[3 * k + 3]>>

Built == pc = "done"

Valid == m_n_longitudes >= 3 /\ m_n_latitudes >= 2

\* the set of vertexes of the k-th triple
TriSet(k) == {Triangle(k)[1], Triangle(k)[2], Triangle(k)[3]}

\* the directed edges of the k-th triple, taken cyclically
DirEdges(k) ==
  {<<Triangle(k)[1], Triangle(k)[2]>>, <<Triangle(k)[2], Triangle(k)[3]>>,
   <<Triangle(k)[3], Triangle(k)[1]>>}

\* number of triples that reference vertex v
RefCount(v) == Cardinality({k \in 0..(NTriangles - 1) : v \in TriSet(k)})

\* index of the vertex at position j (0-based) of ring r (1 = first ring)
RingIndex(r, j) == 1 + (r - 1) * m_n_longitudes + j

\* two triples equal up to cyclic rotation
CycEq(t, u) == \/ t = u
               \/ t = <<u[2], u[3], u[1]>>
               \/ t = <<u[3], u[1], u[2]>>

\* ------------------------------------------------------------------ claims
\* C1: for longitudeCount >= 3 and latitudeCount >= 2, the finished index list
\* has exactly 6*longitudeCount*(latitudeCount-1) entries, a multiple of 3, and
\* get_n_elements() returns that length.
C1_IndexCount ==
  (Built /\ Valid) =>
    /\ Len(m_indices) = 6 * m_n_longitudes * (m_n_latitudes - 1)
    /\ Len(m_indices) % 3 = 0
    /\ n_elements # <<>> => n_elements[1] = 6 * m_n_longitudes * (m_n_latitudes - 1)

C1_Witness ==
  /\ Built /\ Valid /\ m_n_latitudes >= 3
  /\ n_elements = <<6 * m_n_longitudes * (m_n_latitudes - 1)>>

\* C2: for longitudeCount >= 3 and latitudeCount >= 2, every value appended to
\* the index list (north cap, bands with their closing face, south cap) is
\* strictly less than vertexCount = 2 + longitudeCount*(latitudeCount-1).
C2_IndexBounds ==
  Valid => \A i \in 1..Len(m_indices) :
             m_indices[i] < 2 + m_n_longitudes * (m_n_latitudes - 1)

C2_Witness ==
  /\ Built /\ Valid /\ m_n_latitudes >= 3
  /\ \E i \in 1..Len(m_indices) : m_indices[i] = 1 + m_n_longitudes * (m_n_latitudes - 1)
  /\ \E i \in 1..Len(m_indices) : m_indices[i] = m_n_longitudes * (m_n_latitudes - 1)

\* C3: for longitudeCount >= 3 and latitudeCount >= 2, the finished triangles
\* form a closed, consistently wound surface: every directed edge of a triple
\* occurs in exactly one triple and its reverse in exactly one (other) triple.
C3_ClosedSurface ==
  (Built /\ Valid) =>
    \A k \in 0..(NTriangles - 1) : \A e \in DirEdges(k) :
      /\ {k2 \in 0..(NTriangles - 1) : e \in DirEdges(k2)} = {k}
      /\ Cardinality({k2 \in 0..(NTriangles - 1) : <<e[2], e[1]>> \in DirEdges(k2)}) = 1
      /\ <<e[2], e[1]>> \notin DirEdges(k)

C3_Witness ==
  /\ Built /\ Valid /\ m_n_latitudes >= 3
  /\ NTriangles = 2 * m_n_longitudes * (m_n_latitudes - 1)
  /\ \E k \in 0..(NTriangles - 1) :
       <<m_n_longitudes, 1>> \in DirEdges(k) /\ 2 * m_n_longitudes \notin TriSet(k) /\ 0 \notin TriSet(k)

\* the two triangles that a single uniform loop using (j+1) % longitudeCount
\* emits for longitude position j (0-based) of band b (0-based)
UniformFace(b, j) ==
  LET p0 == RingIndex(b + 1, j)
      p1 == RingIndex(b + 1, (j + 1) % m_n_longitudes)
      p2 == RingIndex(b + 2, j)
      p3 == RingIndex(b + 2, (j + 1) % m_n_longitudes)
  IN <<(<<p0, p1, p2>>), (<<p1, p3, p2>>)>>

\* number of the first triple of face j of band b in the finished list
FaceStart(b, j) == m_n_longitudes + 2 * (b * m_n_longitudes + j)

\* C4: in every band every quad, the wraparound quad included, is split along
\* the same diagonal: face j consists of (p0,p1,p2) and (p1,p3,p2) up to cyclic
\* rotation, as a single uniform loop using (j+1) % longitudeCount would emit.
C4_UniformDiagonal ==
  (Built /\ Valid) =>
    \A b \in 0..(m_n_latitudes - 3) : \A j \in 0..(m_n_longitudes - 1) :
      /\ CycEq(Triangle(FaceStart(b, j)), UniformFace(b, j)[1])
      /\ CycEq(Triangle(FaceStart(b, j) + 1), UniformFace(b, j)[2])

\* expected number of triples that reference the vertex at position j of ring r
ExpectedRefCount(r, j) ==
  IF m_n_latitudes = 2 THEN 4
  ELSE IF r = 1 THEN (IF j = 0 THEN 4 ELSE IF j = m_n_longitudes - 1 THEN 6 ELSE 5)
  ELSE IF r = m_n_latitudes - 1
         THEN (IF j = 0 THEN 6 ELSE IF j = m_n_longitudes - 1 THEN 4 ELSE 5)
  ELSE 6

\* C5 as stated: every ring vertex is referenced by exactly 6 triangles, except
\* the vertexes of the first and the last ring, referenced by exactly 4.
C5_Original ==
  (Built /\ Valid) =>
    \A r \in 1..(m_n_latitudes - 1) : \A j \in 0..(m_n_longitudes - 1) :
      RefCount(RingIndex(r, j)) = IF r = 1 \/ r = m_n_latitudes - 1 THEN 4 ELSE 6

\* C5 as amended: every vertex of a ring that is not adjacent to a cap is
\* referenced by exactly 6 triangles; with latitudeCount = 2 every vertex of the
\* single ring by exactly 4; with latitudeCount >= 3 a vertex of the first or
\* the last ring by exactly 5, except the first ring's first vertex and the last
\* ring's last vertex (4) and the first ring's last vertex and the last ring's
\* first vertex (6).
C5_RefCounts ==
  (Built /\ Valid) =>
    \A r \in 1..(m_n_latitudes - 1) : \A j \in 0..(m_n_longitudes - 1) :
      RefCount(RingIndex(r, j)) = ExpectedRefCount(r, j)

C5_Witness ==
  /\ Built /\ Valid /\ m_n_latitudes >= 4 /\ m_n_longitudes >= 4
  /\ RefCount(RingIndex(2, 1)) = 6
  /\ RefCount(RingIndex(1, 1)) = 5
  /\ RefCount(RingIndex(1, 0)) = 4

\* C6: for longitudeCount >= 3 and latitudeCount >= 2, no triple is degenerate
\* (its three indices are pairwise distinct) and no two triples name the same
\* set of three vertexes.
C6_NoDegenerateNoDuplicate ==
  (Built /\ Valid) =>
    /\ \A k \in 0..(NTriangles - 1) : Cardinality(TriSet(k)) = 3
    /\ \A k1, k2 \in 0..(NTriangles - 1) : TriSet(k1) = TriSet(k2) => k1 = k2

C6_Witness ==
  /\ Built /\ Valid /\ m_n_longitudes = 3 /\ m_n_latitudes >= 3
  /\ NTriangles = 6 * (m_n_latitudes - 1)

\* C7: the constructor sets vertexCount to 2 + longitudeCount*(latitudeCount-1)
\* and sizes the vertex buffer to exactly 6*vertexCount floats.
C7_VertexCountAndBufferSize ==
  (pc # "resize" /\ Valid) =>
    /\ m_n_vertexes = 2 + m_n_longitudes * (m_n_latitudes - 1)
    /\ DOMAIN m_vertexes = 0..(6 * (2 + m_n_longitudes * (m_n_latitudes - 1)) - 1)

C7_Witness ==
  /\ pc = "set_vertexes" /\ Valid /\ m_n_latitudes >= 3
  /\ Cardinality(DOMAIN m_vertexes) = 6 * m_n_vertexes

\* the position stored for vertex v: slots 6v, 6v+1, 6v+2
Position(v) == <<m_vertexes[6 * v], m_vertexes[6 * v + 1], m_vertexes[6 * v + 2]>>

PositionsWritten == pc \notin {"resize", "set_vertexes", "set_vertexes_rings"}

\* C8: the north pole (0, radius, 0) is written at vertex 0, the ring vertex of
\* latitude step i_lat and longitude step i_lon at vertex
\* 1 + (i_lat-1)*longitudeCount + i_lon, the south pole (0, -radius, 0) at vertex
\* vertexCount-1, the index that set_indices uses as the south-cap apex.
C8_VertexSlots ==
  (PositionsWritten /\ Valid) =>
    /\ Position(0) = <<Lit(0), Lit(m_radius), Lit(0)>>
    /\ \A ilat \in 1..(m_n_latitudes - 1) : \A ilon \in 0..(m_n_longitudes - 1) :
         Position(1 + (ilat - 1) * m_n_longitudes + ilon)
           = <<RingX(m_radius, ilon, m_n_longitudes, ilat, m_n_latitudes),
               RingY(m_radius, ilon, m_n_longitudes, ilat, m_n_latitudes),
               RingZ(m_radius, ilon, m_n_longitudes, ilat, m_n_latitudes)>>
    /\ Position(m_n_vertexes - 1) = <<Lit(0), Lit(0 - m_radius), Lit(0)>>
    /\ m_n_vertexes - 1 = m_n_longitudes * (m_n_latitudes - 1) + 1
    /\ pc \in {"south_cap", "set_normals", "done"} => indice_last = m_n_vertexes - 1
    /\ Built => \A k \in (NTriangles - m_n_longitudes)..(NTriangles - 1) :
                  Triangle(k)[1] = m_n_vertexes - 1

C8_Witness ==
  /\ Built /\ Valid /\ m_n_latitudes >= 3 /\ m_radius >= 2
  /\ indice_last = m_n_vertexes - 1
  /\ Position(indice_last) = <<Lit(0), Lit(0 - m_radius), Lit(0)>>

\* C9: for longitudeCount >= 3 and latitudeCount >= 2, every read or write of
\* the vertex buffer by set_vertexes and set_normals uses an offset strictly
\* less than the buffer length 6*vertexCount.
C9_NoOutOfBounds ==
  Valid => \A o \in accessed :
             /\ o < 6 * (2 + m_n_longitudes * (m_n_latitudes - 1))
             /\ o \in DOMAIN m_vertexes

\* the south-pole write and the last iteration of set_normals have happened
C9_Witness ==
  /\ Valid /\ m_n_latitudes >= 3
  /\ \/ pc = "north_cap" /\ m_indices = <<>> /\ accessed = {i_coord, i_coord + 1, i_coord + 2}
        /\ i_coord + 3 = 6 * m_n_vertexes - 3
     \/ pc = "set_normals" /\ i_vertex = m_n_vertexes /\ 6 * m_n_vertexes - 1 \in accessed

\* C10: each pole cap is a complete triangle fan: exactly longitudeCount triples
\* contain the pole, and each cyclically adjacent pair of vertexes of the ring
\* next to the pole, the wraparound pair included, is in exactly one of them.
C10_CapFans ==
  (Built /\ Valid) =>
    LET n == m_n_longitudes
        south == 1 + n * (m_n_latitudes - 1)
        all == 0..(NTriangles - 1)
    IN /\ {k \in all : 0 \in TriSet(k)} = 0..(n - 1)
       /\ \A j \in 0..(n - 1) :
            Cardinality({k \in all : TriSet(k) = {0, RingIndex(1, j), RingIndex(1, (j + 1) % n)}}) = 1
       /\ {k \in all : south \in TriSet(k)} = (NTriangles - n)..(NTriangles - 1)
       /\ \A j \in 0..(n - 1) :
            Cardinality({k \in all : TriSet(k) = {south, RingIndex(m_n_latitudes - 1, j),
                                                  RingIndex(m_n_latitudes - 1, (j + 1) % n)}}) = 1

C10_Witness ==
  /\ Built /\ Valid /\ m_n_latitudes >= 3 /\ m_n_longitudes >= 4
  /\ TriSet(m_n_longitudes - 1) = {0, 1, m_n_longitudes}
  /\ TriSet(NTriangles - 1) = {m_n_vertexes - 1, m_n_vertexes - 2, m_n_vertexes - 1 - m_n_longitudes}

\* the places of the history where offset o was stored into
WritesOf(o) == {i \in 1..Len(written) : written[i].off = o}

\* the state part of C11
C11_WriteHistory ==
  Valid =>
    \* the passes run in the order set_vertexes, set_indices, set_normals
    /\ \A i, j \in 1..Len(written) :
         (written[i].by = "set_normals" /\ written[j].by = "set_vertexes") => j < i
    /\ m_indices # <<>> =>
         Cardinality({i \in 1..Len(written) : written[i].by = "set_vertexes"}) = 3 * m_n_vertexes
    /\ (\E i \in 1..Len(written) : written[i].by = "set_normals") =>
         /\ pc \in {"set_normals", "done"}
         /\ Len(m_indices) = 6 * m_n_longitudes * (m_n_latitudes - 1)
    \* no slot is ever stored into twice, and each pass keeps to its slots
    /\ \A i \in 1..Len(written) :
         /\ WritesOf(written[i].off) = {i}
         /\ written[i].off \in 0..(6 * m_n_vertexes - 1)
         /\ written[i].by = IF written[i].off % 6 < 3 THEN "set_vertexes" ELSE "set_normals"
    \* a normal slot is stored into after the position slots of its vertex
    /\ \A i \in 1..Len(written) :
         written[i].by = "set_normals" =>
           LET base == 6 * (written[i].off \div 6)
           IN \A o \in {base, base + 1, base + 2} : \E j \in 1..(i - 1) : written[j].off = o
    \* at the end every slot has been stored into
    /\ Built => \A o \in 0..(6 * m_n_vertexes - 1) : WritesOf(o) # {}

\* the step part of C11: a step of set_normals changes neither a position slot
\* nor the index list
C11_NormalsFrame ==
  (Valid /\ pc = "set_normals") =>
    /\ m_indices' = m_indices
    /\ \A o \in DOMAIN m_vertexes : o % 6 < 3 => m_vertexes'[o] = m_vertexes[o]

\* C11: construction runs set_vertexes, set_indices, set_normals; when it
\* finishes every one of the 6*vertexCount slots has been written exactly once,
\* the position slots by set_vertexes only and the normal slots by set_normals
\* only, after the position slots of the same vertex; set_normals leaves every
\* position slot and the index list unchanged.
C11_WrittenOnce == [](C11_WriteHistory) /\ [][C11_NormalsFrame]_vars

C11_Witness ==
  /\ Built /\ Valid /\ m_n_latitudes >= 3
  /\ Len(written) = 6 * m_n_vertexes
  /\ written[Len(written)] = [off |-> 6 * m_n_vertexes - 1, by |-> "set_normals"]
  /\ m_vertexes[6 * m_n_vertexes - 1].f = "normalize"
  /\ m_vertexes[6 * m_n_vertexes - 5] = Lit(0 - m_radius)

\* C12: the constructor validates nothing: with latitudeCount = 1 (and
\* longitudeCount >= 3) construction goes on, vertexCount is 2, the unsigned
\* bound latitudeCount - 2 of the band loop wraps to 2^32 - 1, so the band loop
\* is entered instead of skipped, and the index list receives values that are
\* not below vertexCount.
C12_UncheckedLatitude ==
  (m_n_latitudes = 1 /\ m_n_longitudes >= 3) =>
    /\ m_n_vertexes = 2
    /\ BandLoopBound(m_n_latitudes) = <<Half - 1, Half - 1>>
    /\ pc = "body" => BandLoopCond(i_lat, m_n_latitudes)
    /\ m_indices # <<>> => \E i \in 1..Len(m_indices) : m_indices[i] >= m_n_vertexes
    /\ Len(m_indices) > 3 * m_n_longitudes =>
         \E i \in (3 * m_n_longitudes + 1)..Len(m_indices) : m_indices[i] >= m_n_vertexes

\* the band loop has appended a whole band although there is no ring at all
C12_Witness ==
  /\ m_n_latitudes = 1 /\ m_n_longitudes >= 3
  /\ pc = "body" /\ i_lat >= 1
  /\ Len(m_indices) >= 3 * m_n_longitudes + 6 * m_n_longitudes
  /\ m_indices[Len(m_indices)] >= m_n_vertexes

====
